---- MODULE Spec2Model ----
(***************************************************************************)
(* Node / cost model of the space-edge-computing cost simulator.           *)
(*                                                                         *)
(* Numbers.  Python floats are IEEE-754 binary64 values and numpy's        *)
(* float128 is the x87 80-bit extended format (64-bit significand).  A     *)
(* floating-point value is modelled exactly as a record                    *)
(*     [neg |-> BOOLEAN, m |-> significand bits, e |-> exponent]           *)
(* standing for (-1)^neg * m * 2^e, where m is a sequence of bits, most    *)
(* significant first, without leading or trailing zeros (zero is the       *)
(* empty significand).  Every arithmetic operation computes the exact      *)
(* result on bit sequences and rounds it to nearest, ties to even, at the  *)
(* precision of its format, as the hardware does.  Exponent range          *)
(* (overflow to infinity, subnormals) is not modelled: the inputs are      *)
(* bounded far away from it.  The sign of a zero is not kept: -0.0 is the  *)
(* zero FZero, which is not negative.                                      *)
(***************************************************************************)
EXTENDS Integers, Sequences, FiniteSets, TLC

(***************************************************************************)
(* Arithmetic on bit sequences (most significant bit first).               *)
(***************************************************************************)
\* b without its leading zeros
StripLead(b) ==
    IF \A i \in 1..Len(b) : b[i] = 0 THEN <<>>
    ELSE LET k == CHOOSE i \in 1..Len(b) :
                      b[i] = 1 /\ \A j \in 1..(i - 1) : b[j] = 0
         IN  IF k = 1 THEN b ELSE SubSeq(b, k, Len(b))

RECURSIVE NatBits(_)
NatBits(n) ==
    IF n = 0 THEN <<>> ELSE Append(NatBits(n \div 2), n % 2)

RECURSIVE BitsNat(_)
BitsNat(b) ==
    IF b = <<>> THEN 0
    ELSE 2 * BitsNat(SubSeq(b, 1, Len(b) - 1)) + b[Len(b)]

Zeros(k) == [i \in 1..k |-> 0]

AnyOne(b) == \E i \in 1..Len(b) : b[i] = 1

BitAt(a, i) == IF i < Len(a) THEN a[Len(a) - i] ELSE 0

\* The recursions below split their range in halves and compute the lower
\* half before the upper one (First fixes that order of evaluation), so that
\* the depth of the evaluation is logarithmic in the length of the operands.
First(x, y) == IF x = x THEN y ELSE y

\* bits lo..hi (counted from the least significant end) of a + b + c, and the
\* carry out of them
RECURSIVE AddRange(_, _, _, _, _)
AddRange(a, b, lo, hi, c) ==
    IF lo = hi
    THEN LET t == BitAt(a, lo) + BitAt(b, lo) + c
         IN  [s |-> <<t % 2>>, c |-> t \div 2]
    ELSE LET mid == (lo + hi) \div 2
             L   == AddRange(a, b, lo, mid, c)
             H   == AddRange(a, b, mid + 1, hi, L.c)
         IN  First(L, [s |-> H.s \o L.s, c |-> H.c])

BitsAdd(a, b) ==
    LET n == IF Len(a) > Len(b) THEN Len(a) ELSE Len(b)
    IN  IF n = 0 THEN <<>>
        ELSE LET r == AddRange(a, b, 0, n - 1, 0) IN StripLead(<<r.c>> \o r.s)

\* bits lo..hi of a - b - c for a >= b, and the borrow out of them
RECURSIVE SubRange(_, _, _, _, _)
SubRange(a, b, lo, hi, c) ==
    IF lo = hi
    THEN LET t == BitAt(a, lo) - BitAt(b, lo) - c
         IN  [s |-> <<t % 2>>, c |-> IF t < 0 THEN 1 ELSE 0]
    ELSE LET mid == (lo + hi) \div 2
             L   == SubRange(a, b, lo, mid, c)
             H   == SubRange(a, b, mid + 1, hi, L.c)
         IN  First(L, [s |-> H.s \o L.s, c |-> H.c])

BitsSub(a, b) ==
    IF a = <<>> THEN <<>> ELSE StripLead(SubRange(a, b, 0, Len(a) - 1, 0).s)

\* -1, 0, 1 as a < b, a = b, a > b on positions lo..hi of equally long a, b
RECURSIVE CmpRange(_, _, _, _)
CmpRange(a, b, lo, hi) ==
    IF lo = hi
    THEN (IF a[lo] < b[lo] THEN -1 ELSE IF a[lo] > b[lo] THEN 1 ELSE 0)
    ELSE LET mid == (lo + hi) \div 2
             c   == CmpRange(a, b, lo, mid)
         IN  IF c # 0 THEN c ELSE CmpRange(a, b, mid + 1, hi)

\* -1, 0, 1 as a < b, a = b, a > b (both without leading zeros)
BitsCmp(a, b) ==
    IF Len(a) < Len(b) THEN -1
    ELSE IF Len(a) > Len(b) THEN 1
    ELSE IF a = b THEN 0
    ELSE CmpRange(a, b, 1, Len(a))

\* a times the number written by the bits b[lo..hi]
RECURSIVE MulRange(_, _, _, _)
MulRange(a, b, lo, hi) ==
    IF lo = hi THEN (IF b[lo] = 1 THEN a ELSE <<>>)
    ELSE LET mid == (lo + hi) \div 2
             H   == MulRange(a, b, lo, mid)
             L   == MulRange(a, b, mid + 1, hi)
         IN  First(H, First(L, BitsAdd(IF H = <<>> THEN <<>> ELSE H \o Zeros(hi - mid), L)))

BitsMul(a, b) ==
    IF a = <<>> \/ b = <<>> THEN <<>> ELSE MulRange(a, b, 1, Len(b))

\* long division of n by d, bits lo..hi of n brought down one at a time onto
\* the running quotient and remainder st
RECURSIVE DivRange(_, _, _, _, _)
DivRange(n, d, lo, hi, st) ==
    IF lo = hi
    THEN LET r1 == StripLead(Append(st.r, n[lo]))
         IN  IF BitsCmp(r1, d) >= 0
             THEN [q |-> Append(st.q, 1), r |-> BitsSub(r1, d)]
             ELSE [q |-> Append(st.q, 0), r |-> r1]
    ELSE LET mid == (lo + hi) \div 2
             s1  == DivRange(n, d, lo, mid, st)
         IN  First(s1, DivRange(n, d, mid + 1, hi, s1))

\* quotient and remainder of n by d (d # 0)
BitsDivMod(n, d) ==
    IF n = <<>> THEN [q |-> <<>>, r |-> <<>>]
    ELSE LET st == DivRange(n, d, 1, Len(n), [q |-> <<>>, r |-> <<>>])
         IN  [q |-> StripLead(st.q), r |-> st.r]

(***************************************************************************)
(* Floating-point values and correctly rounded operations.                 *)
(***************************************************************************)
DoublePrec == 53
LongDoublePrec == 64

FZero == [neg |-> FALSE, m |-> <<>>, e |-> 0]

\* the number of trailing zeros of b (b holds a 1)
TrailZeros(b) ==
    IF b[Len(b)] = 1 THEN 0
    ELSE Len(b) - (CHOOSE i \in 1..Len(b) :
                       b[i] = 1 /\ \A j \in (i + 1)..Len(b) : b[j] = 0)

\* the canonical record of (-1)^neg * m * 2^e
Canon(neg, m, e) ==
    LET s == StripLead(m)
        z == TrailZeros(s)
    IN  IF s = <<>> THEN FZero
        ELSE [neg |-> neg, m |-> SubSeq(s, 1, Len(s) - z), e |-> e + z]

\* (-1)^neg * m * 2^e rounded to prec significant bits, nearest, ties to even
RoundNearestEven(neg, m, e, prec) ==
    LET s == StripLead(m)
    IN  IF Len(s) <= prec THEN Canon(neg, s, e)
        ELSE LET keep == SubSeq(s, 1, prec)
                 rest == SubSeq(s, prec + 1, Len(s))
                 up   == rest[1] = 1 /\ (AnyOne(Tail(rest)) \/ keep[prec] = 1)
             IN  Canon(neg, IF up THEN BitsAdd(keep, <<1>>) ELSE keep, e + Len(rest))

\* an integer as a floating-point value (exact below 2^53)
IntToFloat(n) ==
    IF n < 0 THEN Canon(TRUE, NatBits(-n), 0) ELSE Canon(FALSE, NatBits(n), 0)

FMul(x, y, prec) ==
    IF x.m = <<>> \/ y.m = <<>> THEN FZero
    ELSE RoundNearestEven(x.neg # y.neg, BitsMul(x.m, y.m), x.e + y.e, prec)

\* the quotient's bits, with a nonzero remainder kept as a sticky last bit
Sticky(qr) == Append(qr.q, IF qr.r = <<>> THEN 0 ELSE 1)

\* x / y for x, y # 0 with the dividend shifted left by k bits
FDivShifted(x, y, k, prec) ==
    RoundNearestEven(x.neg # y.neg, Sticky(BitsDivMod(x.m \o Zeros(k), y.m)),
                     x.e - y.e - k - 1, prec)

\* x / y for y # 0: the dividend is shifted so that the quotient carries at
\* least prec + 2 bits
FDiv(x, y, prec) ==
    IF x.m = <<>> THEN FZero
    ELSE FDivShifted(x, y, IF prec + 2 + Len(y.m) > Len(x.m)
                           THEN prec + 2 + Len(y.m) - Len(x.m) ELSE 0, prec)

\* x + y for x, y # 0 given their significands a, b at the common exponent e
\* and c, the comparison of a with b
FAddAligned(x, y, a, b, e, c, prec) ==
    IF x.neg = y.neg THEN RoundNearestEven(x.neg, BitsAdd(a, b), e, prec)
    ELSE IF c = 0 THEN FZero
    ELSE IF c > 0 THEN RoundNearestEven(x.neg, BitsSub(a, b), e, prec)
    ELSE RoundNearestEven(y.neg, BitsSub(b, a), e, prec)

FAddAt(x, y, a, b, e, prec) == FAddAligned(x, y, a, b, e, BitsCmp(a, b), prec)

FAddExp(x, y, e, prec) ==
    FAddAt(x, y, x.m \o Zeros(x.e - e), y.m \o Zeros(y.e - e), e, prec)

FAdd(x, y, prec) ==
    IF x.m = <<>> THEN y
    ELSE IF y.m = <<>> THEN x
    ELSE FAddExp(x, y, IF x.e < y.e THEN x.e ELSE y.e, prec)

FNeg(x) == IF x.m = <<>> THEN x ELSE [x EXCEPT !.neg = ~x.neg]

\* x < y
FLess(x, y) == LET d == FAdd(x, FNeg(y), LongDoublePrec + DoublePrec) IN d.neg

FIsNeg(x) == x.neg

\* the least integral value >= x  (numpy.ceil)
FCeil(x) ==
    IF x.e >= 0 THEN x
    ELSE LET n    == Len(x.m) + x.e
             ip   == IF n > 0 THEN SubSeq(x.m, 1, n) ELSE <<>>
         IN  IF x.neg THEN Canon(TRUE, ip, 0)
             ELSE Canon(FALSE, BitsAdd(ip, <<1>>), 0)

\* an integral floating-point value as an integer  (int(round(.)))
RECURSIVE Pow2(_)
Pow2(k) == IF k = 0 THEN 1 ELSE 2 * Pow2(k - 1)

FloatToInt(x) ==
    LET v == BitsNat(x.m) * Pow2(x.e) IN IF x.neg THEN -v ELSE v

\* a decimal literal p/q (q > 0) read as a Python float: the nearest double
Lit(p, q) == FDiv(IntToFloat(p), IntToFloat(q), DoublePrec)

\* the double written in C99 hexadecimal notation: digits d1.d2...dn times 2^p
HexBits(digits) ==
    LET Nibble(h) == <<h \div 8, (h \div 4) % 2, (h \div 2) % 2, h % 2>>
        RECURSIVE Cat(_)
        Cat(i) == IF i > Len(digits) THEN <<>> ELSE Nibble(digits[i]) \o Cat(i + 1)
    IN  Cat(1)

FromHex(neg, digits, p) == Canon(neg, HexBits(digits), p - 4 * (Len(digits) - 1))

(***************************************************************************)
(* Results of calls: a returned value or a raised exception.               *)
(***************************************************************************)
Ok(v) == [k |-> "ok", v |-> v]
Raise(exc) == [k |-> "raise", v |-> exc]

(***************************************************************************)
(* Input domains.  Literals are pairs <<p, q>> standing for the decimal    *)
(* literal p/q of the caller's source text.                                *)
(***************************************************************************)
MaxData == 2
RefData == {90, 100}
DataVals == ((-MaxData)..MaxData) \cup RefData

SpeedLits == {<<-10, 1>>, <<0, 1>>, <<10, 1>>, <<30, 1>>}
PhiLits == {<<0, 1>>, <<4, 10>>, <<9, 10>>, <<1, 1>>}
DistLits == {<<-1, 1>>, <<0, 1>>, <<1, 2>>, <<1, 1>>, <<100, 1>>, <<700, 1>>}
EnergyVals == {5, 25}

SpeedVals == {Lit(l[1], l[2]) : l \in SpeedLits}
PhiVals == {Lit(l[1], l[2]) : l \in PhiLits}
DistVals == {Lit(l[1], l[2]) : l \in DistLits}

(***************************************************************************)
(* math.log10 on the distances of the model.  Non-positive arguments       *)
(* raise ValueError ("math domain error"); the two values that are not     *)
(* integers are the doubles the C library returns, in hexadecimal.         *)
(***************************************************************************)
Log10Pos ==
    (IntToFloat(1) :> FZero) @@
    (IntToFloat(100) :> IntToFloat(2)) @@
    (Canon(FALSE, <<1>>, -1) :>
        FromHex(TRUE, <<1, 3, 4, 4, 1, 3, 5, 0, 9, 15, 7, 9, 15, 15>>, -2)) @@
    (IntToFloat(700) :>
        FromHex(FALSE, <<1, 6, 12, 2, 12, 2, 12, 2, 13, 14, 3, 3, 1, 0>>, 1))

Log10(x) ==
    IF x.m = <<>> \/ x.neg THEN Raise("ValueError") ELSE Ok(Log10Pos[x])

(***************************************************************************)
(* Node, ComputingNode, TransmissionNode.                                  *)
(* A node is a record [kind, speed, phi]; speed and phi are floats.        *)
(***************************************************************************)
\* Node.__init__: phi is widened to numpy.float128, which changes no value
Node_init(kind, speed, phi) == [kind |-> kind, speed |-> speed, phi |-> phi]

ComputingNode(speed, phi) == Node_init("computing", speed, phi)

TransmissionNode(speed) == Node_init("transmission", speed, IntToFloat(1))

\* Node.process: int(round(np.ceil(np.float128(data) * self.phi)))
process(self, data) ==
    Ok(FloatToInt(FCeil(FMul(IntToFloat(data), self.phi, LongDoublePrec))))

\* x / y in Python: ZeroDivisionError for a zero divisor
PyDiv(x, y) ==
    IF y.m = <<>> THEN Raise("ZeroDivisionError") ELSE Ok(FDiv(x, y, DoublePrec))

\* a faulty variant of time_cost that divides with // (floor division)
time_cost_floor(self, data_in) ==
    IF self.speed.m = <<>> THEN Raise("ZeroDivisionError")
    ELSE Ok(FNeg(FCeil(FNeg(FDiv(IntToFloat(data_in), self.speed, DoublePrec)))))

\* ComputingNode.time_cost, TransmissionNode.time_cost: data_in / self.speed
time_cost(self, data_in) == PyDiv(IntToFloat(data_in), self.speed)

\* (energy_memory * data_in) + (energy_computing * t), t the outcome of the
\* division
computing_energy_sum(data_in, energy_memory, energy_computing, t) ==
    IF t.k = "raise" THEN t
    ELSE Ok(FAdd(FMul(IntToFloat(energy_memory), IntToFloat(data_in), DoublePrec),
                 FMul(IntToFloat(energy_computing), t.v, DoublePrec),
                 DoublePrec))

\* ComputingNode.energy_cost:
\*   (energy_memory * data_in) + (energy_computing * (data_in / self.speed))
computing_energy_cost(self, data_in, energy_memory, energy_computing) ==
    computing_energy_sum(data_in, energy_memory, energy_computing,
                         PyDiv(IntToFloat(data_in), self.speed))

\* lg * energy * t, lg and t the outcomes of log10 and of the division, which
\* are evaluated in this order
transmission_energy_product(lg, energy, t) ==
    IF lg.k = "raise" THEN lg
    ELSE IF t.k = "raise" THEN t
    ELSE Ok(FMul(FMul(lg.v, IntToFloat(energy), DoublePrec), t.v, DoublePrec))

\* TransmissionNode.energy_cost:
\*   log10(distance) * energy * (data_in / self.speed)
transmission_energy_cost(self, data_in, energy, distance) ==
    transmission_energy_product(Log10(distance), energy,
                                PyDiv(IntToFloat(data_in), self.speed))

\* the parameter names of energy_cost after self, per node kind
EnergyParams(kind) ==
    IF kind = "computing" THEN <<"data_in", "energy_memory", "energy_computing">>
    ELSE <<"data_in", "energy", "distance">>

\* the positions of kw that give the parameter n
Given(kw, n) == {j \in 1..Len(kw) : kw[j][1] = n}

\* Python's binding of a call's positional and keyword arguments to the
\* parameters: the bound values in parameter order, or TypeError.  kw is a
\* sequence of <<name, value>> pairs.
Bind(params, pos, kw) ==
    IF Len(pos) > Len(params) THEN Raise("TypeError")
    ELSE IF \E j \in 1..Len(kw) : \A i \in 1..Len(params) : kw[j][1] # params[i]
         THEN Raise("TypeError")
    ELSE IF \E i \in 1..Len(pos) : Given(kw, params[i]) # {} THEN Raise("TypeError")
    ELSE IF \E i \in (Len(pos) + 1)..Len(params) : Cardinality(Given(kw, params[i])) # 1
         THEN Raise("TypeError")
    ELSE Ok([i \in 1..Len(params) |->
                IF i <= Len(pos) THEN pos[i]
                ELSE kw[CHOOSE j \in Given(kw, params[i]) : TRUE][2]])

\* the method of the node's class on the bound arguments b
energy_cost_bound(self, b) ==
    IF b.k = "raise" THEN b
    ELSE IF self.kind = "computing"
         THEN computing_energy_cost(self, b.v[1], b.v[2], b.v[3])
         ELSE transmission_energy_cost(self, b.v[1], b.v[2], b.v[3])

\* self.energy_cost(*pos, **kw)
energy_cost(self, pos, kw) ==
    energy_cost_bound(self, Bind(EnergyParams(self.kind), pos, kw))

(***************************************************************************)
(* The scenarios of tests/test_scenario.py.  A run is the record           *)
(*   d     the payload variable (data_size, then d_out)                    *)
(*   acc   the cost accumulators, by name                                  *)
(*   calls the node calls made so far, in order                            *)
(*   out   the lines printed so far                                        *)
(*   exc   "none", or the exception that ended the run                     *)
(***************************************************************************)
InitialSize == 100

NewRun(accs) ==
    [d |-> InitialSize,
     acc |-> [a \in accs |-> [t |-> FZero, e |-> FZero]],
     calls |-> <<>>, out |-> <<>>, exc |-> "none"]

\* a faulty variant of Aborted: the exception is swallowed and the function
\* goes on
Aborted_never(run) == FALSE

\* an exception raised by a statement ends the function: the statements
\* after it do not run
Aborted(run) == run.exc # "none"

\* a faulty variant of cost_arg: the size the stage's process call returns
cost_arg_processed(run, nd) == process(nd, run.d).v

\* the payload size a stage's cost calls are given: the payload variable as
\* it is before the stage's process call
cost_arg(run, nd) == run.d

\* the energy keywords of the scenarios' calls
computing_kw == << <<"energy_uptime", 5>>, <<"energy_io", 25>> >>
transmission_kw(distance) == << <<"energy", 5>>, <<"distance", IntToFloat(distance)>> >>

\* the run after the call op(arg) of stage i with outcome r: an exception
\* leaves the function at once
Called(run, i, op, arg, r) ==
    [run EXCEPT !.calls = Append(@, [stage |-> i, op |-> op, arg |-> arg, out |-> r]),
                !.exc = IF r.k = "raise" THEN r.v ELSE @]

\* acc += r, for a returned r
Accumulate(run, a, f, r) ==
    IF r.k = "raise" THEN run
    ELSE [run EXCEPT !.acc[a][f] = FAdd(@, r.v, DoublePrec)]

CostStmt(run, i, a, f, op, arg, r) == Accumulate(Called(run, i, op, arg, r), a, f, r)

\* a_time += nd.time_cost(d)
time_stmt(run, i, a, nd) ==
    IF Aborted(run) THEN run
    ELSE CostStmt(run, i, a, "t", "time_cost", cost_arg(run, nd),
                  time_cost(nd, cost_arg(run, nd)))

\* a_energy += nd.energy_cost(d, **kw)
energy_stmt(run, i, a, nd, kw) ==
    IF Aborted(run) THEN run
    ELSE CostStmt(run, i, a, "e", "energy_cost", cost_arg(run, nd),
                  energy_cost(nd, <<cost_arg(run, nd)>>, kw))

\* d_out = r, for a returned r
Assign(run, r) == IF r.k = "raise" THEN run ELSE [run EXCEPT !.d = r.v]

ProcessStmt(run, i, arg, r) == Assign(Called(run, i, "process", arg, r), r)

\* d_out = nd.process(d)
process_stmt(run, i, nd) ==
    IF Aborted(run) THEN run ELSE ProcessStmt(run, i, run.d, process(nd, run.d))

\* the three statements of stage i on node nd, accumulating into acc[a]
Stage(run, i, a, nd, kw) ==
    process_stmt(energy_stmt(time_stmt(run, i, a, nd), i, a, nd, kw), i, nd)

\* print(...) of a header line
print(run, label) ==
    IF Aborted(run) THEN run
    ELSE [run EXCEPT !.out = Append(@, [label |-> label, vals |-> <<>>])]

\* print("Time: " + str(a_time) + " Energy: " + str(a_energy))
print_costs(run, label, a) ==
    IF Aborted(run) THEN run
    ELSE [run EXCEPT !.out = Append(@, [label |-> label,
                                        vals |-> <<run.acc[a].t, run.acc[a].e>>])]

\* print("Time: " + str(a_time + b_time) + " Energy: " + str(a_energy + b_energy))
print_sum(run, label, a, b) ==
    IF Aborted(run) THEN run
    ELSE [run EXCEPT !.out = Append(@,
             [label |-> label,
              vals |-> <<FAdd(run.acc[a].t, run.acc[b].t, DoublePrec),
                         FAdd(run.acc[a].e, run.acc[b].e, DoublePrec)>>])]

\* case_standalone: obc = ComputingNode(speed=30.0, phi=0.9) and its stage
standalone_obc(run) ==
    Stage(run, 1, "total", ComputingNode(IntToFloat(30), Lit(9, 10)), computing_kw)

\* ground_link = TransmissionNode(speed=10.0) and its stage, distance=700
standalone_ground_link(run) ==
    Stage(run, 2, "total", TransmissionNode(IntToFloat(10)), transmission_kw(700))

standalone_report(run) ==
    print_costs(print(run, "-- Standalone case:"), "Time/Energy", "total")

case_standalone ==
    standalone_report(standalone_ground_link(standalone_obc(NewRun({"total"}))))

\* case_edge_computing: obc = ComputingNode(speed=30.0, phi=0.9) and its stage
edge_obc(run) ==
    Stage(run, 1, "user", ComputingNode(IntToFloat(30), Lit(9, 10)), computing_kw)

\* isl = TransmissionNode(speed=20.0) and its stage, distance=100
edge_isl(run) ==
    Stage(run, 2, "user", TransmissionNode(IntToFloat(20)), transmission_kw(100))

edge_user_report(run) ==
    print_costs(print(run, "User costs:"), "Time/Energy", "user")

\* edge_computer = ComputingNode(speed=300.0, phi=0.4) and its stage
edge_edge_computer(run) ==
    Stage(run, 3, "ec", ComputingNode(IntToFloat(300), Lit(4, 10)), computing_kw)

\* ground_link = TransmissionNode(speed=10.0) and its stage, distance=700
edge_ground_link(run) ==
    Stage(run, 4, "ec", TransmissionNode(IntToFloat(10)), transmission_kw(700))

edge_ec_report(run) ==
    print_costs(print(run, "Edge costs:"), "Time/Energy", "ec")

edge_total_report(run) ==
    print_sum(print(run, "Total costs:"), "Time/Energy", "user", "ec")

case_edge_computing ==
    edge_total_report(edge_ec_report(edge_ground_link(edge_edge_computer(
        edge_user_report(edge_isl(edge_obc(print(NewRun({"user", "ec"}), "-- EC Case"))))))))

\* the module's top level: case_standalone() then case_edge_computing(); an
\* exception raised by the first call ends the script
Script(r1, r2) ==
    IF Aborted(r1) THEN [calls |-> r1.calls, out |-> r1.out, exc |-> r1.exc]
    ELSE [calls |-> r1.calls \o r2.calls, out |-> r1.out \o r2.out, exc |-> r2.exc]

test_scenario_main == Script(case_standalone, case_edge_computing)

(***************************************************************************)
(* The state machine: one node object and the result of the last           *)
(* operation.  The calls a caller may make on the node are the actions;    *)
(* the scenario functions are operations of their own, on nodes they       *)
(* construct themselves.  An object a specification does not construct is  *)
(* "none".                                                                 *)
(***************************************************************************)
VARIABLES
    node,   \* the node object: [kind, speed, phi]
    datum,  \* the Data object: [value]
    manager,      \* the ExportManager object: [project_root]
    host,         \* the process's working directory and the directories
                  \* that exist: [cwd, dirs]
    sim,          \* the SatelliteOrbitSimulation object and its widgets
    planisphere,  \* the EarthPlanisphere object and its widgets
    ret     \* the last operation: its name, its arguments, its outcome

\* the objects of the programs beside the cost simulator
apps == <<manager, host, sim, planisphere>>

vars == <<node, datum, apps, ret>>

NoApps ==
    /\ manager = "none"
    /\ host = "none"
    /\ sim = "none"
    /\ planisphere = "none"

Kinds == {"computing", "transmission"}

\* the argument lists of an energy_cost call after data_in, by position or by
\* keyword; the keywords of the scenarios are among them
EnergyArgs(kind) ==
    IF kind = "computing"
    THEN {[pos |-> <<a, b>>, kw |-> <<>>] : a \in EnergyVals, b \in EnergyVals}
         \cup {[pos |-> <<>>, kw |-> << <<"energy_uptime", a>>, <<"energy_io", b>> >>] :
                  a \in EnergyVals, b \in EnergyVals}
    ELSE {[pos |-> <<a, x>>, kw |-> <<>>] : a \in EnergyVals, x \in DistVals}
         \cup {[pos |-> <<>>, kw |-> << <<"energy", a>>, <<"distance", x>> >>] :
                  a \in EnergyVals, x \in DistVals}

\* The results of the calls, computed once for the attributes and arguments
\* of the model: process reads self.phi only, time_cost self.speed only, and
\* energy_cost is the method of the node's class and reads self.speed only.
process_of == [p \in PhiVals, d \in DataVals |-> process([phi |-> p], d)]

time_cost_of == [s \in SpeedVals, d \in DataVals |-> time_cost([speed |-> s], d)]

energy_cost_of ==
    [k \in Kinds, s \in SpeedVals |->
        [d \in DataVals, a \in EnergyArgs(k) |->
            energy_cost([kind |-> k, speed |-> s], <<d>> \o a.pos, a.kw)]]

\* a node as constructed: ComputingNode(speed, phi) or TransmissionNode(speed)
Init ==
    /\ node \in {ComputingNode(s, p) : s \in SpeedVals, p \in PhiVals}
                \cup {TransmissionNode(s) : s \in SpeedVals}
    /\ datum = "none"
    /\ NoApps
    /\ ret = [op |-> "__init__"]

set_speed(speed) ==
    /\ node' = [node EXCEPT !.speed = speed]
    /\ ret' = [op |-> "set_speed", arg |-> speed]
    /\ UNCHANGED <<datum, apps>>

set_phi(phi) ==
    /\ node' = [node EXCEPT !.phi = phi]
    /\ ret' = [op |-> "set_phi", arg |-> phi]
    /\ UNCHANGED <<datum, apps>>

get_speed ==
    /\ ret' = [op |-> "get_speed", out |-> Ok(node.speed)]
    /\ UNCHANGED <<node, datum, apps>>

\* the former get_phi, which returned self.speed
get_phi_speed ==
    /\ ret' = [op |-> "get_phi", out |-> Ok(node.speed)]
    /\ UNCHANGED <<node, datum, apps>>

get_phi ==
    /\ ret' = [op |-> "get_phi", out |-> Ok(node.phi)]
    /\ UNCHANGED <<node, datum, apps>>

\* a faulty variant of Process that resets the factor once the data is
\* processed
Process_resetting(d) ==
    /\ ret' = [op |-> "process", data |-> d, out |-> process_of[node.phi, d]]
    /\ node' = [node EXCEPT !.phi = IntToFloat(1)]
    /\ UNCHANGED <<datum, apps>>

Process(d) ==
    /\ ret' = [op |-> "process", data |-> d, out |-> process_of[node.phi, d]]
    /\ UNCHANGED <<node, datum, apps>>

TimeCost(d) ==
    /\ ret' = [op |-> "time_cost", data |-> d, out |-> time_cost_of[node.speed, d]]
    /\ UNCHANGED <<node, datum, apps>>

EnergyCost(d, a) ==
    /\ ret' = [op |-> "energy_cost", data |-> d, args |-> a,
               out |-> energy_cost_of[node.kind, node.speed][d, a]]
    /\ UNCHANGED <<node, datum, apps>>

CaseStandalone ==
    /\ ret' = [op |-> "case_standalone", run |-> case_standalone]
    /\ UNCHANGED <<node, datum, apps>>

CaseEdgeComputing ==
    /\ ret' = [op |-> "case_edge_computing", run |-> case_edge_computing]
    /\ UNCHANGED <<node, datum, apps>>

TestScenarioMain ==
    /\ ret' = [op |-> "test_scenario", run |-> test_scenario_main]
    /\ UNCHANGED <<node, datum, apps>>

Next ==
    \/ \E v \in SpeedVals : set_speed(v)
    \/ \E v \in PhiVals : set_phi(v)
    \/ get_speed
    \/ get_phi
    \/ \E d \in DataVals : Process(d)
    \/ \E d \in DataVals : TimeCost(d)
    \/ \E d \in DataVals, a \in EnergyArgs(node.kind) : EnergyCost(d, a)
    \/ CaseStandalone
    \/ CaseEdgeComputing
    \/ TestScenarioMain

Spec == Init /\ [][Next]_vars

(***************************************************************************)
(* Data (core/units/data_size.py): an object holding one integer, value.   *)
(***************************************************************************)
\* int(x) of a float x: truncation toward zero
PyInt(x) ==
    IF x.neg THEN FloatToInt(FCeil(x)) ELSE -FloatToInt(FCeil(FNeg(x)))

\* the factors given to data_out, as literals
DataPhiLits == PhiLits \cup {<<5, 2>>, <<-3, 2>>}
DataPhis == {Lit(l[1], l[2]) : l \in DataPhiLits}

\* the stored values are kept within -MaxValue..MaxValue
MaxValue == 400

\* Data.__init__: self.value = DataUnit(value)
Data_init(value) == [value |-> value]

\* Data.data_in: return self.value
Data_data_in(self) == Ok(self.value)

\* a faulty variant of Data_data_out_result that stores the new value
\* whatever the flag
Data_data_out_result_stored(self, new_value, alter) ==
    [self |-> [self EXCEPT !.value = new_value], out |-> Ok(new_value)]

\* if alter: self.value = new_value; return new_value.  The object after the
\* call and the outcome of the call.
Data_data_out_result(self, new_value, alter) ==
    [self |-> IF alter THEN [self EXCEPT !.value = new_value] ELSE self,
     out |-> Ok(new_value)]

\* a faulty variant of Data_data_out that yields the change of the value
Data_data_out_change(self, phi, alter) ==
    Data_data_out_result(self, self.value * PyInt(phi) - self.value, alter)

\* Data.data_out: new_value = self.value * int(phi)
Data_data_out(self, phi, alter) ==
    Data_data_out_result(self, self.value * PyInt(phi), alter)

Abs(n) == IF n < 0 THEN -n ELSE n

\* a Data object as constructed
DataInit ==
    /\ node = "none"
    /\ NoApps
    /\ datum \in {Data_init(v) : v \in DataVals}
    /\ ret = [op |-> "__init__"]

DataIn ==
    /\ ret' = [op |-> "data_in", self |-> datum, out |-> Data_data_in(datum)]
    /\ UNCHANGED <<node, datum, apps>>

DataOut(phi, alter) ==
    /\ Abs(Data_data_out(datum, phi, alter).out.v) <= MaxValue
    /\ datum' = Data_data_out(datum, phi, alter).self
    /\ ret' = [op |-> "data_out", self |-> datum, phi |-> phi, alter |-> alter,
               out |-> Data_data_out(datum, phi, alter).out]
    /\ UNCHANGED <<node, apps>>

DataNext ==
    \/ DataIn
    \/ \E phi \in DataPhis, alter \in BOOLEAN : DataOut(phi, alter)

DataSpec == DataInit /\ [][DataNext]_vars

(***************************************************************************)
(* The cost strategies (core/costs): objects without attributes, each with *)
(* one method calculate_cost.  A specification of them starts from a call  *)
(* about to be made, ret holding the class and the arguments, and the step *)
(* of the class makes the call.                                            *)
(***************************************************************************)
\* the speeds given to calculate_cost
CostSpeeds == SpeedVals \cup {Lit(5, 2), Lit(1, 2)}

\* ComputingEnergyCost.calculate_cost:
\*   (energy_memory * data_in) + (energy_computing * (data_in / speed))
ComputingEnergyCost_calculate_cost(data_in, speed, energy_memory, energy_computing) ==
    computing_energy_sum(data_in, energy_memory, energy_computing,
                         PyDiv(IntToFloat(data_in), speed))

\* distance * energy * float(q), q the outcome of the division
transmission_cost_product(distance, energy, q) ==
    IF q.k = "raise" THEN q
    ELSE Ok(FMul(FMul(distance, IntToFloat(energy), DoublePrec), q.v, DoublePrec))

\* a faulty variant of TransmissionEnergyCost_calculate_cost that divides by
\* the speed as given
TransmissionEnergyCost_calculate_cost_by_speed(data_in, speed, distance, energy) ==
    transmission_cost_product(distance, energy, PyDiv(IntToFloat(data_in), speed))

\* TransmissionEnergyCost.calculate_cost:
\*   distance * energy * float(data_in / int(speed))
TransmissionEnergyCost_calculate_cost(data_in, speed, distance, energy) ==
    transmission_cost_product(distance, energy,
                              PyDiv(IntToFloat(data_in), IntToFloat(PyInt(speed))))

\* TransmissionTimeCost.calculate_cost: data_in / int(speed)
TransmissionTimeCost_calculate_cost(data_in, speed) ==
    PyDiv(IntToFloat(data_in), IntToFloat(PyInt(speed)))

\* the calls about to be made: the class and the arguments of calculate_cost
ComputingEnergyCostCalls ==
    {[op |-> "call", class |-> "ComputingEnergyCost", args |-> <<d, s, a, b>>] :
        d \in DataVals, s \in CostSpeeds, a \in EnergyVals, b \in EnergyVals}

TransmissionEnergyCostCalls ==
    {[op |-> "call", class |-> "TransmissionEnergyCost", args |-> <<d, s, x, a>>] :
        d \in DataVals, s \in CostSpeeds, x \in DistVals, a \in EnergyVals}

TransmissionTimeCostCalls ==
    {[op |-> "call", class |-> "TransmissionTimeCost", args |-> <<d, s>>] :
        d \in DataVals, s \in CostSpeeds}

CostInit ==
    /\ node = "none"
    /\ datum = "none"
    /\ NoApps
    /\ \/ ret \in ComputingEnergyCostCalls
       \/ ret \in TransmissionEnergyCostCalls
       \/ ret \in TransmissionTimeCostCalls

\* the call of ret has returned or raised out
Returned(out) ==
    /\ ret' = [op |-> "calculate_cost", class |-> ret.class, args |-> ret.args,
               out |-> out]
    /\ UNCHANGED <<node, datum, apps>>

ComputingEnergyCostCall ==
    /\ ret.op = "call" /\ ret.class = "ComputingEnergyCost"
    /\ Returned(ComputingEnergyCost_calculate_cost(ret.args[1], ret.args[2],
                                                   ret.args[3], ret.args[4]))

TransmissionEnergyCostCall ==
    /\ ret.op = "call" /\ ret.class = "TransmissionEnergyCost"
    /\ Returned(TransmissionEnergyCost_calculate_cost(ret.args[1], ret.args[2],
                                                      ret.args[3], ret.args[4]))

TransmissionTimeCostCall ==
    /\ ret.op = "call" /\ ret.class = "TransmissionTimeCost"
    /\ Returned(TransmissionTimeCost_calculate_cost(ret.args[1], ret.args[2]))

CostNext ==
    \/ ComputingEnergyCostCall
    \/ TransmissionEnergyCostCall
    \/ TransmissionTimeCostCall

CostSpec == CostInit /\ [][CostNext]_vars

(***************************************************************************)
(* A chain of nodes: the payload is given to a node's process and what it  *)
(* returns is given to the next node, as the scenarios do.  A payload is a *)
(* Python integer, of any size; here it is held as the exact value record  *)
(* of the integer, so that payloads beyond the significand of float128 are *)
(* within reach.                                                           *)
(***************************************************************************)
\* the integer 2^k - 1
AllOnes(k) == Canon(FALSE, [i \in 1..k |-> 1], 0)

\* np.float128(data) of an integer: the nearest value of 64 significant bits
ToLongDouble(x) == RoundNearestEven(x.neg, x.m, x.e, LongDoublePrec)

\* a faulty variant of process_wide that takes the scale factor for a rate of
\* growth: ceil(data * (1 + phi))
process_wide_growing(self, x) ==
    Ok(FCeil(FMul(ToLongDouble(x), FAdd(IntToFloat(1), self.phi, LongDoublePrec),
                  LongDoublePrec)))

\* a faulty variant of process_wide that rounds down and adds one
process_wide_floor_plus_one(self, x) ==
    Ok(FAdd(FNeg(FCeil(FNeg(FMul(ToLongDouble(x), self.phi, LongDoublePrec)))),
            IntToFloat(1), LongDoublePrec + DoublePrec))

\* a faulty variant of process_wide that truncates the product
process_wide_truncating(self, x) ==
    Ok(FNeg(FCeil(FNeg(FMul(ToLongDouble(x), self.phi, LongDoublePrec)))))

\* Node.process on an integer of any size:
\*   int(round(np.ceil(np.float128(data) * self.phi)))
process_wide(self, x) ==
    Ok(FCeil(FMul(ToLongDouble(x), self.phi, LongDoublePrec)))

\* the length of a chain is at most MaxStages
MaxStages == 3

\* the payloads a chain starts from: the small ones, 274177, 2^53 - 1,
\* 2^53 + 1, 2^64 - 1 and 2^65 - 1
ChainPayloads ==
    {IntToFloat(d) : d \in DataVals}
    \cup {IntToFloat(274177), AllOnes(DoublePrec),
          Canon(FALSE, <<1>> \o Zeros(DoublePrec - 1) \o <<1>>, 0),
          AllOnes(LongDoublePrec), AllOnes(LongDoublePrec + 1)}

\* the double 67280421310721 / 2^64, whose product with 274177 is 1 + 2^-64
\* (2^64 + 1 = 274177 * 67280421310721)
CofactorPhi ==
    Canon(FALSE,
          BitsDivMod(<<1>> \o Zeros(LongDoublePrec - 1) \o <<1>>, NatBits(274177)).q,
          0 - LongDoublePrec)

\* the scale factors of the nodes of a chain
ChainPhis == PhiVals \cup {Lit(5, 2), CofactorPhi}

\* the nodes of a chain
ChainNodes ==
    {ComputingNode(IntToFloat(30), p) : p \in ChainPhis}
    \cup {TransmissionNode(IntToFloat(10))}

ChainInit ==
    /\ node = "none"
    /\ datum = "none"
    /\ NoApps
    /\ ret \in {[op |-> "payload", stage |-> 0, out |-> Ok(x)] : x \in ChainPayloads}

\* data = n.process(data)
ChainStage(n) ==
    /\ ret.stage < MaxStages
    /\ node' = n
    /\ ret' = [op |-> "process", stage |-> ret.stage + 1, data |-> ret.out.v,
               out |-> process_wide(n, ret.out.v)]
    /\ UNCHANGED <<datum, apps>>

ChainNext == \E n \in ChainNodes : ChainStage(n)

ChainSpec == ChainInit /\ [][ChainNext]_vars

(***************************************************************************)
(* ExportManager (io/export_manager.py).  A path is the sequence of its    *)
(* names; a str or Path object holds one, absolute or relative.  The host  *)
(* holds the working directory of the process and the set of directories   *)
(* that exist; the surrounding program may change directory and remove     *)
(* directory trees.                                                        *)
(***************************************************************************)
None == [type |-> "NoneType"]

\* the str of a path
Str(abs, parts) == [type |-> "str", abs |-> abs, parts |-> parts]

\* Path(x) of a str or Path x
Path(x) == [type |-> "Path", abs |-> x.abs, parts |-> x.parts]

\* the truth value of an argument: None and the empty str are false, a Path
\* is true
Truthy(x) ==
    IF x.type = "NoneType" THEN FALSE
    ELSE IF x.type = "str" THEN x.abs \/ x.parts # <<>>
    ELSE TRUE

\* the path and its ancestors
Ancestry(parts) == {SubSeq(parts, 1, k) : k \in 0..Len(parts)}

\* the absolute path a str or Path names in the working directory cwd
Resolve(x, cwd) == IF x.abs THEN x.parts ELSE cwd \o x.parts

\* path.mkdir(parents=True, exist_ok=True): the host afterwards
mkdir(h, path) ==
    [h EXCEPT !.dirs = h.dirs \cup Ancestry(Resolve(path, h.cwd))]

\* the directories of the host at the start
AllDirs == {<<>>, <<"srv">>, <<"srv", "job">>, <<"tmp">>}

\* the arguments given to create_export_dir: None (the default), "", "out",
\* Path("out")
RootArgs == {None, Str(FALSE, <<>>), Str(FALSE, <<"out">>), Path(Str(FALSE, <<"out">>))}

\* ExportManager.__init__: self.project_root = os.getcwd()
ExportManager_init(h) == [project_root |-> Str(TRUE, h.cwd)]

\* a faulty variant of create_export_dir that creates the directory it is
\* given
create_export_dir_at_root(self, h, root) ==
    IF ~Truthy(root) THEN mkdir(h, Path(self.project_root))
    ELSE mkdir(h, Path(root))

\* ExportManager.create_export_dir: the host afterwards
create_export_dir(self, h, root) ==
    IF ~Truthy(root) THEN mkdir(h, Path(self.project_root)) ELSE h

\* ExportManager.get_export_dir
get_export_dir(self, h) == Ok(Path(self.project_root))

\* a manager constructed in one of the directories
ExportInit ==
    /\ node = "none"
    /\ datum = "none"
    /\ sim = "none"
    /\ planisphere = "none"
    /\ host \in {[cwd |-> d, dirs |-> AllDirs] : d \in AllDirs}
    /\ manager = ExportManager_init(host)
    /\ ret = [op |-> "__init__"]

CreateExportDir(root) ==
    /\ host' = create_export_dir(manager, host, root)
    /\ ret' = [op |-> "create_export_dir", root |-> root, out |-> Ok(None)]
    /\ UNCHANGED <<node, datum, manager, sim, planisphere>>

GetExportDir ==
    /\ ret' = [op |-> "get_export_dir", out |-> get_export_dir(manager, host)]
    /\ UNCHANGED <<node, datum, apps>>

\* os.chdir(d) by the surrounding program
Chdir(d) ==
    /\ d \in host.dirs
    /\ host' = [host EXCEPT !.cwd = d]
    /\ ret' = [op |-> "chdir", path |-> d]
    /\ UNCHANGED <<node, datum, manager, sim, planisphere>>

\* the removal of the directory d and of all it holds
Rmtree(d) ==
    /\ d \in host.dirs
    /\ d # <<>>
    /\ host' = [host EXCEPT !.dirs = {x \in host.dirs : d \notin Ancestry(x)}]
    /\ ret' = [op |-> "rmtree", path |-> d]
    /\ UNCHANGED <<node, datum, manager, sim, planisphere>>

ExportNext ==
    \/ \E root \in RootArgs : CreateExportDir(root)
    \/ GetExportDir
    \/ \E d \in AllDirs : Chdir(d)
    \/ \E d \in AllDirs : Rmtree(d)

ExportSpec == ExportInit /\ [][ExportNext]_vars

(***************************************************************************)
(* SatelliteOrbitSimulation (test.py).  The object holds time, the two     *)
(* trails and the data of its two plot lines; orbit_type and speed are the *)
(* values of its radio buttons and of its slider.  The handlers run one at *)
(* a time on the Tk main loop; animate schedules itself again, so that a   *)
(* tick is always to come.  The slider speeds of the model are integral    *)
(* and are held as integers, and so are the longitudes, which are then     *)
(* integral and exact in float arithmetic.  numpy.sin is not computed: a   *)
(* latitude of the polar orbit is the term 80 * sin(arg) with its argument.*)
(***************************************************************************)
\* the most points a trail keeps
TrailMax == 500

\* animate runs until time reaches MaxTime
MaxTime == 502

\* the slider is moved up to MaxSlideTime ticks after a reset
MaxSlideTime == 0

\* the slider's values: 1.0 and 2.0
SliderSpeeds == {1, 2}

OrbitTypes == {"polar", "equatorial"}

NaN == [k |-> "nan"]

\* the fields and the widget values set by __init__ before it starts the
\* animation
SatelliteOrbitSimulation_fields ==
    [time |-> 0, trail_lon |-> <<>>, trail_lat |-> <<>>,
     orbit_type |-> "polar", speed |-> 2,
     trail_line |-> [x |-> <<>>, y |-> <<>>],
     satellite |-> [x |-> <<>>, y |-> <<>>]]

\* calculate_position: <<lon, lat>>
calculate_position(self) ==
    IF self.orbit_type = "polar"
    THEN <<((self.time * self.speed * 5) % 360) - 180,
           [scale |-> 80,
            sin |-> FMul(IntToFloat(self.time * self.speed), Lit(5, 100), DoublePrec)]>>
    ELSE <<((self.time * self.speed * 5) % 360) - 180, 0>>

\* reset_simulation
reset_simulation(self) ==
    [self EXCEPT !.time = 0, !.trail_lon = <<>>, !.trail_lat = <<>>,
                 !.trail_line = [x |-> <<>>, y |-> <<>>],
                 !.satellite = [x |-> <<>>, y |-> <<>>]]

\* self.time += 1
animate_tick(self) == [self EXCEPT !.time = @ + 1]

\* the position is added to the trails
animate_append(self) ==
    [self EXCEPT !.trail_lon = Append(@, calculate_position(self)[1]),
                 !.trail_lat = Append(@, calculate_position(self)[2])]

\* a faulty variant of animate_trim that drops the oldest point as soon as
\* the trail holds 500
animate_trim_early(self) ==
    IF Len(self.trail_lon) >= TrailMax
    THEN [self EXCEPT !.trail_lon = Tail(@), !.trail_lat = Tail(@)]
    ELSE self

\* if len(self.trail_lon) > 500: both trails drop their oldest point
animate_trim(self) ==
    IF Len(self.trail_lon) > TrailMax
    THEN [self EXCEPT !.trail_lon = Tail(@), !.trail_lat = Tail(@)]
    ELSE self

\* the elements lo..hi of vals, a NaN before each one whose longitude is more
\* than 180 away from the one before it
RECURSIVE Wrapped(_, _, _, _)
Wrapped(lons, vals, lo, hi) ==
    IF lo > hi THEN <<>>
    ELSE IF lo = hi
    THEN IF lo > 1 /\ Abs(lons[lo] - lons[lo - 1]) > 180
         THEN <<NaN, vals[lo]>>
         ELSE <<vals[lo]>>
    ELSE Wrapped(lons, vals, lo, (lo + hi) \div 2)
         \o Wrapped(lons, vals, (lo + hi) \div 2 + 1, hi)

\* trail_line.set_data(wrapped trails); satellite.set_data([lon], [lat])
animate_draw(self) ==
    [self EXCEPT
        !.trail_line =
            [x |-> Wrapped(self.trail_lon, self.trail_lon, 1, Len(self.trail_lon)),
             y |-> Wrapped(self.trail_lon, self.trail_lat, 1, Len(self.trail_lon))],
        !.satellite =
            [x |-> <<self.trail_lon[Len(self.trail_lon)]>>,
             y |-> <<self.trail_lat[Len(self.trail_lat)]>>]]

\* animate
animate(self) == animate_draw(animate_trim(animate_append(animate_tick(self))))

\* SatelliteOrbitSimulation.__init__, which ends with self.animate()
SimInit ==
    /\ node = "none"
    /\ datum = "none"
    /\ manager = "none"
    /\ host = "none"
    /\ planisphere = "none"
    /\ sim = animate(SatelliteOrbitSimulation_fields)
    /\ ret = [op |-> "__init__"]

Animate ==
    /\ sim.time < MaxTime
    /\ sim' = animate(sim)
    /\ ret' = [op |-> "animate"]
    /\ UNCHANGED <<node, datum, manager, host, planisphere>>

\* the Reset button
ResetSimulation ==
    /\ sim' = reset_simulation(sim)
    /\ ret' = [op |-> "reset_simulation"]
    /\ UNCHANGED <<node, datum, manager, host, planisphere>>

\* a radio button: the orbit type is set, then reset_simulation runs
SelectOrbit(o) ==
    /\ sim' = reset_simulation([sim EXCEPT !.orbit_type = o])
    /\ ret' = [op |-> "select_orbit", value |-> o]
    /\ UNCHANGED <<node, datum, manager, host, planisphere>>

\* the slider is moved
Slide(v) ==
    /\ sim.time <= MaxSlideTime
    /\ sim' = [sim EXCEPT !.speed = v]
    /\ ret' = [op |-> "slide", value |-> v]
    /\ UNCHANGED <<node, datum, manager, host, planisphere>>

SimNext ==
    \/ Animate
    \/ ResetSimulation
    \/ \E o \in OrbitTypes : SelectOrbit(o)
    \/ \E v \in SliderSpeeds : Slide(v)

SimSpec == SimInit /\ [][SimNext]_vars

(***************************************************************************)
(* EarthPlanisphere (notebooks/tests/test_planisphere.py).  The object     *)
(* holds the markers; lat_entry and lon_entry are the texts of its two     *)
(* entries, canvas the items put on its canvas and dialog the last message *)
(* box shown.  has_map tells whether load_planisphere could fetch the map  *)
(* (the attribute map_image exists).  A text is the sequence of the code   *)
(* points of its characters.                                               *)
(***************************************************************************)
\* the decimal digits 0 to 9 of ASCII
IsDigit(c) == 48 <= c /\ c <= 57

DigitVal(c) == c - 48

\* the ASCII characters float() skips around the number: tab, line feed,
\* vertical tab, form feed, carriage return and blank
WhiteSpace == {9, 10, 11, 12, 13, 32}

\* the characters beyond ASCII that are white space to str: next line,
\* no-break space, ogham space mark, en quad to hair space, line and
\* paragraph separator, narrow no-break space, medium mathematical space and
\* ideographic space
UnicodeSpaces ==
    {133, 160, 5760} \cup (8192..8202) \cup {8232, 8233, 8239, 8287, 12288}

\* the zeros of the decimal digits beyond ASCII: each is followed by the
\* digits one to nine of its script
DecimalZeros ==
    {1632, 1776, 1984, 2406, 2534, 2662, 2790, 2918, 3046, 3174, 3302, 3430,
     3558, 3664, 3792, 3872, 4160, 4240, 6112, 6160, 6470, 6608, 6784, 6800,
     6992, 7088, 7232, 7248, 42528, 43216, 43264, 43472, 43504, 43600, 44016,
     65296, 66720, 68912, 69734, 69872, 69942, 70096, 70384, 70736, 70864,
     71248, 71360, 71472, 71904, 72016, 72784, 73040, 73120, 92768, 92864,
     93008, 120782, 120792, 120802, 120812, 120822, 123200, 123632, 125264,
     130032}

IsDecimalDigit(c) == \E z \in DecimalZeros : z <= c /\ c <= z + 9

\* what float() reads in place of c: an ASCII character stays, white space
\* becomes a blank, a decimal digit its ASCII digit and any other character
\* a question mark
ToAscii(c) ==
    IF c < 127 THEN c
    ELSE IF c \in UnicodeSpaces THEN 32
    ELSE IF IsDecimalDigit(c)
    THEN 48 + c - (CHOOSE z \in DecimalZeros : z <= c /\ c <= z + 9)
    ELSE 63

ToAsciiAll(t) == [i \in 1..Len(t) |-> ToAscii(t[i])]

\* the lower-case letter of an ASCII capital
Lower(c) == IF 65 <= c /\ c <= 90 THEN c + 32 ELSE c

LowerAll(t) == [i \in 1..Len(t) |-> Lower(t[i])]

\* the places of t that hold no white space
Inked(t) == {i \in 1..Len(t) : t[i] \notin WhiteSpace}

\* the text without the white space around it
Strip(t) ==
    IF Inked(t) = {} THEN <<>>
    ELSE SubSeq(t, CHOOSE i \in Inked(t) : \A j \in Inked(t) : i <= j,
                   CHOOSE i \in Inked(t) : \A j \in Inked(t) : j <= i)

\* digits with at most one point (46) among them
IsDecimal(t) ==
    /\ \A i \in 1..Len(t) : IsDigit(t[i]) \/ t[i] = 46
    /\ \E i \in 1..Len(t) : IsDigit(t[i])
    /\ Cardinality({i \in 1..Len(t) : t[i] = 46}) <= 1

AllDigits(d) == d # <<>> /\ \A i \in 1..Len(d) : IsDigit(d[i])

\* what may follow the e of an exponent: digits, after a sign (- is 45 and
\* + is 43) or not
IsExponent(x) ==
    /\ x # <<>>
    /\ IF x[1] = 45 \/ x[1] = 43 THEN AllDigits(Tail(x)) ELSE AllDigits(x)

\* the digits without the zeros in front of them
StripZeros(d) ==
    IF \A i \in 1..Len(d) : d[i] = 48 THEN <<>>
    ELSE SubSeq(d, CHOOSE i \in 1..Len(d) : d[i] # 48 /\ \A j \in 1..(i - 1) : d[j] = 48,
                   Len(d))

BitsSquare(b) == BitsMul(b, b)

\* 10^k in bits
RECURSIVE Pow10Bits(_)
Pow10Bits(k) ==
    IF k = 0 THEN <<1>>
    ELSE IF k % 2 = 0 THEN BitsSquare(Pow10Bits(k \div 2))
    ELSE BitsMul(BitsSquare(Pow10Bits(k \div 2)), <<1, 0, 1, 0>>)

\* the number the digits d[lo..hi] write, in bits: the upper half of the
\* digits times the power of ten of the lower half, plus the lower half
RECURSIVE DigitsRange(_, _, _)
DigitsRange(d, lo, hi) ==
    IF lo = hi THEN NatBits(DigitVal(d[lo]))
    ELSE BitsAdd(BitsMul(DigitsRange(d, lo, (lo + hi) \div 2),
                         Pow10Bits(hi - (lo + hi) \div 2)),
                 DigitsRange(d, (lo + hi) \div 2 + 1, hi))

\* the number the digit sequence d writes, in bits
DigitsBits(d) == IF d = <<>> THEN <<>> ELSE DigitsRange(d, 1, Len(d))

\* the number of digits after the point
FractionLen(t) ==
    IF \E i \in 1..Len(t) : t[i] = 46
    THEN Len(t) - (CHOOSE i \in 1..Len(t) : t[i] = 46)
    ELSE 0

\* the digits of the exponent part x, and whether its sign is a minus
ExponentDigits(x) ==
    IF x = <<>> THEN x
    ELSE IF x[1] = 45 \/ x[1] = 43 THEN Tail(x)
    ELSE x

ExponentIsNeg(x) == x # <<>> /\ x[1] = 45

\* the number the digits d write, for at most nine digits
RECURSIVE DigitsNat(_)
DigitsNat(d) ==
    IF d = <<>> THEN 0
    ELSE 10 * DigitsNat(SubSeq(d, 1, Len(d) - 1)) + DigitVal(d[Len(d)])

\* the magnitude float() takes for the exponent digits d without leading
\* zeros: an exponent of ten digits or more counts as 1100000000
ClippedExponent(d) == IF Len(d) > 9 THEN 1100000000 ELSE DigitsNat(d)

\* the exponent float() takes for the exponent part x
ExponentVal(x) ==
    IF ExponentIsNeg(x) THEN 0 - ClippedExponent(StripZeros(ExponentDigits(x)))
    ELSE ClippedExponent(StripZeros(ExponentDigits(x)))

Inf(neg) == [k |-> "inf", neg |-> neg]

\* the zero of sign neg
Zero(neg) == [neg |-> neg, m |-> <<>>, e |-> 0]

\* a rounded double beyond the largest one is an infinity
Overflowed(r) == IF Len(r.m) + r.e > 1024 THEN Inf(r.neg) ELSE r

\* (-1)^neg * s * 2^e for bits s with a leading 1, rounded to the nearest
\* double: prec is the number of bits a double keeps at the magnitude of the
\* value, 53 for a normal one and fewer for a subnormal one
RoundAtPrec(neg, s, e, prec) ==
    IF prec >= 1 THEN Overflowed(RoundNearestEven(neg, s, e, prec))
    ELSE IF prec = 0 /\ AnyOne(Tail(s)) THEN [neg |-> neg, m |-> <<1>>, e |-> -1074]
    ELSE Zero(neg)

RoundStripped(neg, s, e) ==
    RoundAtPrec(neg, s, e, IF Len(s) + e - 1 >= -1022 THEN DoublePrec ELSE Len(s) + e + 1074)

RoundDouble(neg, bits, e) == RoundStripped(neg, StripLead(bits), e)

\* n / p with the dividend shifted left by k bits
ScaledDown(neg, n, p, k) == RoundDouble(neg, Sticky(BitsDivMod(n \o Zeros(k), p)), 0 - k - 1)

\* (-1)^neg * n * 10^x for bits n # 0, as the nearest double
Scaled(neg, n, x) ==
    IF x >= 0 THEN RoundDouble(neg, BitsMul(n, Pow10Bits(x)), 0)
    ELSE ScaledDown(neg, n, Pow10Bits(-x),
                    IF DoublePrec + 2 + Len(Pow10Bits(-x)) > Len(n)
                    THEN DoublePrec + 2 + Len(Pow10Bits(-x)) - Len(n) ELSE 0)

\* (-1)^neg * d * 10^x for the digits d without leading zeros: beyond 10^310
\* the value is an infinity, below 10^-330 a zero
DecimalOf(neg, d, x) ==
    IF d = <<>> THEN Zero(neg)
    ELSE IF Len(d) + x > 310 THEN Inf(neg)
    ELSE IF Len(d) + x < -330 THEN Zero(neg)
    ELSE Scaled(neg, DigitsBits(d), x)

\* float() of the decimal t and the exponent part x: more than 1000000000
\* digits, counted without the leading zeros, or as many after the point,
\* are refused
Decimal(t, x, neg) ==
    IF \/ Len(StripZeros(SelectSeq(t, IsDigit))) > 1000000000
       \/ FractionLen(t) > 1000000000
    THEN Raise("ValueError")
    ELSE Ok(DecimalOf(neg, StripZeros(SelectSeq(t, IsDigit)), ExponentVal(x) - FractionLen(t)))

\* the places of the letter e (101) or E (69) in t
ExponentMarks(t) == {i \in 1..Len(t) : t[i] = 101 \/ t[i] = 69}

\* float() of a number split at the place k of its first e
ParseSplit(t, k, neg) ==
    IF IsDecimal(SubSeq(t, 1, k - 1)) /\ IsExponent(SubSeq(t, k + 1, Len(t)))
    THEN Decimal(SubSeq(t, 1, k - 1), SubSeq(t, k + 1, Len(t)), neg)
    ELSE Raise("ValueError")

\* float() of a text that is neither nan nor an infinity
ParseNumber(t, neg) ==
    IF ExponentMarks(t) # {}
    THEN ParseSplit(t, CHOOSE k \in ExponentMarks(t) : \A j \in ExponentMarks(t) : k <= j, neg)
    ELSE IF IsDecimal(t) THEN Decimal(t, <<>>, neg)
    ELSE Raise("ValueError")

\* float() of a lower-case text without sign: nan, inf and infinity are
\* read in any case
ParseLower(t, low, neg) ==
    IF low = <<110, 97, 110>> THEN Ok(NaN)
    ELSE IF low = <<105, 110, 102>> \/ low = <<105, 110, 102, 105, 110, 105, 116, 121>>
    THEN Ok(Inf(neg))
    ELSE ParseNumber(t, neg)

\* float() of a text without sign
ParseUnsigned(t, neg) == ParseLower(t, LowerAll(t), neg)

\* float() of a text without underscores or white space around it
ParseSigned(t) ==
    IF t = <<>> THEN Raise("ValueError")
    ELSE IF t[1] = 45 THEN ParseUnsigned(Tail(t), TRUE)
    ELSE IF t[1] = 43 THEN ParseUnsigned(Tail(t), FALSE)
    ELSE ParseUnsigned(t, FALSE)

NotUnderscore(c) == c # 95

\* float() of a text without white space around it: an underscore (95) may
\* stand between two digits only, and is skipped there
ParseUnderscores(t) ==
    IF \E i \in 1..Len(t) :
           /\ t[i] = 95
           /\ ~(i > 1 /\ i < Len(t) /\ IsDigit(t[i - 1]) /\ IsDigit(t[i + 1]))
    THEN Raise("ValueError")
    ELSE ParseSigned(SelectSeq(t, NotUnderscore))

\* float(text): the characters beyond ASCII are replaced first
PyFloat(t) == ParseUnderscores(Strip(ToAsciiAll(t)))

\* x is NaN or an infinity
IsSpecial(x) == "k" \in DOMAIN x

\* x <= y in Python, for floats x, y
PyLe(x, y) ==
    IF IsSpecial(x) \/ IsSpecial(y)
    THEN /\ x # NaN /\ y # NaN
         /\ x = Inf(TRUE) \/ y = Inf(FALSE)
    ELSE ~FLess(y, x)

\* lat_lon_to_pixel: ((lon + 180) / 360) * 800, ((90 - lat) / 180) * 500
lat_lon_to_pixel(lat, lon) ==
    <<FMul(FDiv(FAdd(lon, IntToFloat(180), DoublePrec), IntToFloat(360), DoublePrec),
           IntToFloat(800), DoublePrec),
      FMul(FDiv(FAdd(IntToFloat(90), FNeg(lat), DoublePrec), IntToFloat(180), DoublePrec),
           IntToFloat(500), DoublePrec)>>

\* messagebox.showerror / showinfo
showerror(self, message) == [self EXCEPT !.dialog = [kind |-> "error", message |-> message]]

showinfo(self, message) == [self EXCEPT !.dialog = [kind |-> "info", message |-> message]]

\* the items mark_location puts on the canvas for the marker at pixel: with
\* the map, the image of the map with every stored marker and the new one;
\* without it, an oval and a text
marker_items(self, lat, lon, pixel) ==
    IF self.has_map
    THEN <<[kind |-> "image",
            pins |-> [i \in 1..Len(self.markers) |->
                         lat_lon_to_pixel(self.markers[i][1], self.markers[i][2])]
                     \o <<pixel>>]>>
    ELSE <<[kind |-> "oval", at |-> pixel],
           [kind |-> "text",
            at |-> <<pixel[1], FAdd(pixel[2], IntToFloat(-15), DoublePrec)>>,
            of |-> <<lat, lon>>]>>

\* what ImageTk.PhotoImage and canvas.create_image do when called: they
\* return, or one of them raises a ValueError or another exception (a
\* Pillow without its Tk extension raises ImportError)
Imaging == {"ok", "ValueError", "Exception"}

\* the handler returns, leaving the object self; an exception leaves it
Done(self) == [self |-> self, out |-> Ok(None)]

Escaped(self, exc) == [self |-> self, out |-> Raise(exc)]

\* mark_location from the drawing on: the marker is drawn, then stored.  With
\* map_image the drawing goes through PhotoImage: its ValueError is caught
\* by the handler's except clause, any other exception leaves the handler,
\* and either way the marker is not stored
mark_drawn(self, lat, lon, imaging) ==
    IF self.has_map /\ imaging = "ValueError"
    THEN Done(showerror(self, "Please enter valid numeric coordinates"))
    ELSE IF self.has_map /\ imaging # "ok"
    THEN Escaped(self, imaging)
    ELSE Done(showinfo([self EXCEPT
                           !.canvas = @ \o marker_items(self, lat, lon,
                                                        lat_lon_to_pixel(lat, lon)),
                           !.markers = Append(@, <<lat, lon>>)],
                       "Location marked"))

\* mark_location from the validation on
mark_validated(self, lat, lon, imaging) ==
    IF ~(PyLe(IntToFloat(-90), lat) /\ PyLe(lat, IntToFloat(90)))
    THEN Done(showerror(self, "Latitude must be between -90 and 90"))
    ELSE IF ~(PyLe(IntToFloat(-180), lon) /\ PyLe(lon, IntToFloat(180)))
    THEN Done(showerror(self, "Longitude must be between -180 and 180"))
    ELSE mark_drawn(self, lat, lon, imaging)

\* mark_location from the outcomes of the two float() calls on
mark_parsed(self, lat, lon, imaging) ==
    IF lat.k = "raise" \/ lon.k = "raise"
    THEN Done(showerror(self, "Please enter valid numeric coordinates"))
    ELSE mark_validated(self, lat.v, lon.v, imaging)

\* EarthPlanisphere.mark_location
mark_location(self, imaging) ==
    mark_parsed(self, PyFloat(self.lat_entry), PyFloat(self.lon_entry), imaging)

\* at most MaxMarkers locations are marked
MaxMarkers == 2

\* the texts typed or pasted into the entries
EntryTexts ==
    {<<97, 98, 99>>,                       \* abc
     <<78, 97, 78>>,                       \* NaN
     <<57, 48, 10>>,                       \* 90 and a line feed
     <<160, 9, 45, 57, 48, 46, 53>>,       \* no-break space, tab, -90.5
     <<45, 49, 46, 56, 101, 50>>,          \* -1.8e2
     <<1633, 1640, 1632, 46, 1637>>}       \* 180.5 in Arabic-Indic digits

\* the object after load_planisphere when the map is on the canvas (shown)
\* or an exception of its try block was caught: the error box and the grid
load_planisphere(self, shown) ==
    [self EXCEPT
        !.canvas = IF shown THEN <<[kind |-> "image", pins |-> <<>>]>>
                   ELSE <<[kind |-> "grid"]>>,
        !.dialog = IF shown THEN None
                   ELSE [kind |-> "error", message |-> "Could not load map"]]

\* EarthPlanisphere.__init__: fetched tells whether the map was fetched and
\* map_image set; the map is then shown unless PhotoImage or create_image
\* raises, which leaves map_image set under the grid
EarthPlanisphere_init(fetched, imaging) ==
    load_planisphere([markers |-> <<>>, lat_entry |-> <<>>, lon_entry |-> <<>>,
                      has_map |-> fetched, canvas |-> <<>>, dialog |-> None],
                     fetched /\ imaging = "ok")

PlanInit ==
    /\ node = "none"
    /\ datum = "none"
    /\ manager = "none"
    /\ host = "none"
    /\ sim = "none"
    /\ planisphere \in {EarthPlanisphere_init(b, i) : b \in BOOLEAN, i \in Imaging}
    /\ ret = [op |-> "__init__"]

\* the user types into the latitude entry, into the longitude entry
TypeLat(t) ==
    /\ planisphere' = [planisphere EXCEPT !.lat_entry = t]
    /\ ret' = [op |-> "type_lat"]
    /\ UNCHANGED <<node, datum, manager, host, sim>>

TypeLon(t) ==
    /\ planisphere' = [planisphere EXCEPT !.lon_entry = t]
    /\ ret' = [op |-> "type_lon"]
    /\ UNCHANGED <<node, datum, manager, host, sim>>

\* the Mark Location button
MarkLocation ==
    /\ Len(planisphere.markers) < MaxMarkers
    /\ \E imaging \in Imaging :
           /\ planisphere' = mark_location(planisphere, imaging).self
           /\ ret' = [op |-> "mark_location", out |-> mark_location(planisphere, imaging).out]
    /\ UNCHANGED <<node, datum, manager, host, sim>>

PlanNext ==
    \/ \E t \in EntryTexts : TypeLat(t)
    \/ \E t \in EntryTexts : TypeLon(t)
    \/ MarkLocation

PlanSpec == PlanInit /\ [][PlanNext]_vars

(***************************************************************************)
(* Properties.                                                             *)
(***************************************************************************)
ScenarioCases == {"case_standalone", "case_edge_computing"}

IsCostCall(c) == c.op \in {"time_cost", "energy_cost"}

\* the cost call calls[j] is given the payload size entering its stage: the
\* initial size at stage 1, later what the process call of the stage before
\* returned; and the stage's own process call has not been made yet
OnEnteringPayload(calls, j) ==
    /\ calls[j].stage = 1 => calls[j].arg = InitialSize
    /\ calls[j].stage > 1 =>
           \E k \in 1..(j - 1) : /\ calls[k].op = "process"
                                 /\ calls[k].stage = calls[j].stage - 1
                                 /\ calls[k].out = Ok(calls[j].arg)
    /\ \A k \in 1..j : ~(calls[k].op = "process" /\ calls[k].stage = calls[j].stage)

\* C2: in every scenario run, the time cost and the energy cost of every
\* stage are evaluated on the payload size entering the stage, never on the
\* value the stage's own process call returns.
C2_CostsOnEnteringPayload ==
    ret.op \in ScenarioCases =>
        \A j \in 1..Len(ret.run.calls) :
            IsCostCall(ret.run.calls[j]) => OnEnteringPayload(ret.run.calls, j)

\* case_edge_computing has called time_cost of its first stage with the
\* initial size, which is not what the stage's process call returns
C2_Witness ==
    /\ ret.op = "case_edge_computing"
    /\ \E j \in 1..Len(ret.run.calls) :
           /\ ret.run.calls[j].op = "time_cost" /\ ret.run.calls[j].stage = 1
           /\ ret.run.calls[j].arg = InitialSize
           /\ ret.run.calls[j].out.k = "ok"
    /\ process(ComputingNode(IntToFloat(30), Lit(9, 10)), InitialSize) # Ok(InitialSize)

StageCount(op) == IF op = "case_standalone" THEN 2 ELSE 4

\* stage i's call of op returned
StageCosted(calls, op, i) ==
    \E j \in 1..Len(calls) :
        calls[j].stage = i /\ calls[j].op = op /\ calls[j].out.k = "ok"

StageCost(calls, op, i) ==
    calls[CHOOSE j \in 1..Len(calls) : calls[j].stage = i /\ calls[j].op = op].out.v

\* the sum, in stage order, of the costs op of stages lo..hi
RECURSIVE SumStages(_, _, _, _)
SumStages(calls, op, lo, hi) ==
    IF hi < lo THEN FZero
    ELSE FAdd(SumStages(calls, op, lo, hi - 1), StageCost(calls, op, hi), DoublePrec)

\* the total of a case: the edge-computing case adds its two subtotals
TotalOf(case, calls, op) ==
    IF case = "case_standalone" THEN SumStages(calls, op, 1, 2)
    ELSE FAdd(SumStages(calls, op, 1, 2), SumStages(calls, op, 3, 4), DoublePrec)

\* C3: a chained scenario reports a total time and a total energy that are
\* the sums over all its stages of the stage's time_cost and energy_cost on
\* its own input size.
C3_TotalsAreSums ==
    ret.op \in ScenarioCases =>
        /\ \A i \in 1..StageCount(ret.op) :
               /\ StageCosted(ret.run.calls, "time_cost", i)
               /\ StageCosted(ret.run.calls, "energy_cost", i)
        /\ ret.run.out # <<>>
        /\ ret.run.out[Len(ret.run.out)].vals =
               <<TotalOf(ret.op, ret.run.calls, "time_cost"),
                 TotalOf(ret.op, ret.run.calls, "energy_cost")>>

\* the i-th argument after data_in of an energy_cost call, as written
ArgOf(a, i) == IF a.pos # <<>> THEN a.pos[i] ELSE a.kw[i][2]

\* energy_io * data_in + energy_uptime * (data_in / throughput)
UptimeIoEnergy(data_in, energy_uptime, energy_io, speed) ==
    FAdd(FMul(IntToFloat(energy_io), IntToFloat(data_in), DoublePrec),
         FMul(IntToFloat(energy_uptime), FDiv(IntToFloat(data_in), speed, DoublePrec),
              DoublePrec),
         DoublePrec)

\* C4: on a ComputingNode with throughput > 0,
\* energy_cost(data_in, energy_uptime, energy_io), by position or by those
\* keywords, returns energy_io * data_in + energy_uptime * (data_in / throughput).
C4_UptimeIoFormula ==
    (ret.op = "energy_cost" /\ node.kind = "computing" /\ FLess(FZero, node.speed)
        /\ ret.data >= 0)
        => ret.out = Ok(UptimeIoEnergy(ret.data, ArgOf(ret.args, 1), ArgOf(ret.args, 2),
                                       node.speed))

\* C5: ComputingNode(30.0, 0.9).process(100) returns exactly 90.
C5_ReferenceProcessIs90 ==
    (ret.op = "process" /\ ret.data = 100
        /\ node = ComputingNode(IntToFloat(30), Lit(9, 10)))
        => ret.out = Ok(90)

\* C6: with a throughput <= 0, every time_cost or energy_cost call fails with
\* InvalidConfiguration and returns no value.
C6_NonPositiveThroughputRejected ==
    (ret.op \in {"time_cost", "energy_cost"} /\ ~FLess(FZero, node.speed))
        => ret.out = Raise("InvalidConfiguration")

\* the last operation is TransmissionNode.energy_cost(data_in, energy, distance)
\* with data_in >= 0, energy > 0 and throughput > 0
TransmissionEnergyCall ==
    /\ ret.op = "energy_cost" /\ node.kind = "transmission"
    /\ ret.data >= 0
    /\ ArgOf(ret.args, 1) > 0
    /\ FLess(FZero, node.speed)

\* C7 as stated: TransmissionNode.energy_cost with distance <= 0 raises
\* InvalidConfiguration.
C7_NonPositiveDistanceInvalidConfiguration ==
    (TransmissionEnergyCall /\ ~FLess(FZero, ArgOf(ret.args, 2)))
        => ret.out = Raise("InvalidConfiguration")

\* C8: TransmissionNode.energy_cost rejects a distance in (0, 1), so that a
\* cost it returns for data_in >= 0, energy > 0 and throughput > 0 is never
\* negative.
C8_DistanceBelowOneRejected ==
    TransmissionEnergyCall
        => /\ (FLess(FZero, ArgOf(ret.args, 2)) /\ FLess(ArgOf(ret.args, 2), IntToFloat(1)))
                  => ret.out.k = "raise"
           /\ ret.out.k = "ok" => ~FIsNeg(ret.out.v)

\* C9: a negative data_in given to process, time_cost or energy_cost raises
\* InvalidConfiguration at that call; no such call returns a result.
C9_NegativeDataRejected ==
    (ret.op \in {"process", "time_cost", "energy_cost"} /\ ret.data < 0)
        => ret.out = Raise("InvalidConfiguration")

ScenarioRuns == ScenarioCases \cup {"test_scenario"}

SomeCallFailed(run) == \E j \in 1..Len(run.calls) : run.calls[j].out.k = "raise"

\* a printed line carries accumulated costs
SurfacesCosts(run) == \E j \in 1..Len(run.out) : run.out[j].vals # <<>>

\* C10: a scenario run in which a stage's cost or process call fails fails as
\* a whole, and no line it printed carries the costs accumulated over the
\* stages before the failing call.
C10_FailedRunSurfacesNoTotals ==
    (ret.op \in ScenarioRuns /\ SomeCallFailed(ret.run))
        => /\ ret.run.exc # "none"
           /\ ~SurfacesCosts(ret.run)

\* case_edge_computing has failed after it accumulated its first time cost,
\* and only its header line is printed
C10_Witness ==
    /\ ret.op = "case_edge_computing"
    /\ SomeCallFailed(ret.run)
    /\ ret.run.acc["user"].t # FZero
    /\ Len(ret.run.out) = 1

\* C11: for a payload value v >= 0 and a scale factor f >= 0,
\* Data(v).data_out(f) returns what a node of scale factor f returns from
\* process(v).
C11_DataOutMatchesProcess ==
    (ret.op = "data_out" /\ ret.self.value >= 0 /\ ~FIsNeg(ret.phi))
        => ret.out = process([phi |-> ret.phi], ret.self.value)

\* C18: data_in returns the stored value and leaves it; data_out with the
\* flag set stores the value it returns; data_out with the flag unset
\* leaves the stored value.
C18_DataInOutEffect ==
    [][/\ ret'.op = "data_in" => (ret'.out = Ok(datum.value) /\ datum' = datum)
       /\ (ret'.op = "data_out" /\ ret'.alter)
              => (ret'.out.k = "ok" /\ datum'.value = ret'.out.v)
       /\ (ret'.op = "data_out" /\ ~ret'.alter)
              => (ret'.out.k = "ok" /\ datum' = datum)]_vars

\* a data_out call with the flag unset has returned a value that differs
\* from the stored one
C18_Witness ==
    /\ ret.op = "data_out"
    /\ ~ret.alter
    /\ ret.out.v # datum.value
    /\ datum = ret.self

\* C19: from a non-negative stored value, a data_out call with a
\* non-negative factor returns a non-negative value and leaves the stored
\* value non-negative; data_in leaves the stored value as it is.
C19_ValueStaysNonNegative ==
    [][/\ (datum.value >= 0 /\ ret'.op = "data_out" /\ ~FIsNeg(ret'.phi))
              => (ret'.out.k = "ok" /\ ret'.out.v >= 0 /\ datum'.value >= 0)
       /\ (datum.value >= 0 /\ ret'.op = "data_in") => datum'.value >= 0]_vars

\* a positive value has been multiplied by the factor 2.5
C19_Witness ==
    /\ ret.op = "data_out"
    /\ ret.alter
    /\ ret.self.value > 0
    /\ ret.phi = Lit(5, 2)
    /\ datum.value = 2 * ret.self.value

\* C12: a TransmissionNode has the scale factor 1 in every reachable state,
\* and its process returns every non-negative payload unchanged.
C12_TransmissionKeepsSize ==
    node.kind = "transmission"
        => /\ node.phi = IntToFloat(1)
           /\ (ret.op = "process" /\ ret.data >= 0) => ret.out = Ok(ret.data)

\* C13: set_phi stores its argument as the scale factor and set_speed its
\* argument as the throughput, no other step changes either field, and
\* get_phi and get_speed return the stored fields: the getters return the
\* argument of the latest setter of their field, or the constructor's.
C13_SettersAndGetters ==
    [][/\ ret'.op = "set_phi" => node'.phi = ret'.arg
       /\ ret'.op # "set_phi" => node'.phi = node.phi
       /\ ret'.op = "set_speed" => node'.speed = ret'.arg
       /\ ret'.op # "set_speed" => node'.speed = node.speed
       /\ ret'.op = "get_phi" => ret'.out = Ok(node.phi)
       /\ ret'.op = "get_speed" => ret'.out = Ok(node.speed)]_vars

\* get_phi has returned a scale factor that differs from the throughput
C13_Witness ==
    /\ ret.op = "get_phi"
    /\ ret.out = Ok(node.phi)
    /\ node.phi # node.speed
    /\ node.kind = "computing"

\* C14: a process, time_cost or energy_cost step leaves the node as it is,
\* and the node holds a kind, a throughput and a scale factor and nothing
\* else: no argument of the call is stored.
C14_CallsKeepConfiguration ==
    [][ret'.op \in {"process", "time_cost", "energy_cost"}
          => /\ node' = node
             /\ DOMAIN node' = {"kind", "speed", "phi"}]_vars

\* an energy_cost call has returned a value
C14_Witness ==
    /\ ret.op = "energy_cost"
    /\ ret.out.k = "ok"
    /\ ret.data > 0
    /\ ret.out.v # FZero

\* x with its sign dropped
FAbs(x) == [x EXCEPT !.neg = FALSE]

\* x is a double nearest to the real quotient n / y, y > 0: the distance of
\* x * y from n is at most y times half a unit in the last place of x
NearestQuotient(x, n, y) ==
    IF n = 0 THEN x = FZero
    ELSE /\ x.m # <<>>
         /\ Len(x.m) <= DoublePrec
         /\ ~FLess(FMul(y, Canon(FALSE, <<1>>, x.e + Len(x.m) - DoublePrec - 1),
                        LongDoublePrec + DoublePrec),
                   FAbs(FAdd(FMul(x, y, LongDoublePrec + DoublePrec),
                             FNeg(IntToFloat(n)),
                             LongDoublePrec + DoublePrec)))

\* C17: with a throughput > 0 and data_in >= 0, time_cost returns the real
\* quotient data_in / throughput (as the nearest double), which is not
\* negative, for both kinds of node.
C17_TimeCostIsQuotient ==
    (ret.op = "time_cost" /\ ret.data >= 0 /\ FLess(FZero, node.speed))
        => /\ ret.out.k = "ok"
           /\ NearestQuotient(ret.out.v, ret.data, node.speed)
           /\ ~FIsNeg(ret.out.v)

\* a time cost that is not an integer has been returned
C17_Witness ==
    /\ ret.op = "time_cost"
    /\ ret.data > 0
    /\ FLess(FZero, node.speed)
    /\ ret.out.k = "ok"
    /\ ret.out.v.e < 0

\* the last operation is energy_cost with arguments given by position,
\* data_in >= 0, a throughput > 0 and positive energy parameters (for a
\* transmission node an energy > 0 and a distance > 0)
PositiveEnergyCall ==
    /\ ret.op = "energy_cost"
    /\ ret.args.kw = <<>>
    /\ ret.data >= 0
    /\ FLess(FZero, node.speed)
    /\ ArgOf(ret.args, 1) > 0
    /\ IF node.kind = "computing" THEN ArgOf(ret.args, 2) > 0
       ELSE FLess(FZero, ArgOf(ret.args, 2))

\* C15: with positive parameters, energy_cost does not decrease when data_in
\* grows: no larger data_in costs less than the data_in of the call.
C15_EnergyMonotone ==
    PositiveEnergyCall
        => \A d2 \in DataVals :
               d2 >= ret.data
                   => /\ ret.out.k = "ok"
                      /\ energy_cost_of[node.kind, node.speed][d2, ret.args].k = "ok"
                      /\ ~FLess(energy_cost_of[node.kind, node.speed][d2, ret.args].v,
                                ret.out.v)

\* the last operation is TransmissionEnergyCost.calculate_cost with
\* data_in >= 0 and speed >= 1
TransmissionEnergyCostCase ==
    /\ ret.op = "calculate_cost" /\ ret.class = "TransmissionEnergyCost"
    /\ ret.args[1] >= 0
    /\ ~FLess(ret.args[2], IntToFloat(1))

\* C20 as stated: TransmissionEnergyCost.calculate_cost returns
\* distance * energy * floor(data_in / int(speed)).
C20_FloorDivision ==
    TransmissionEnergyCostCase
        => ret.out = Ok(FMul(FMul(ret.args[3], IntToFloat(ret.args[4]), DoublePrec),
                             IntToFloat(ret.args[1] \div PyInt(ret.args[2])),
                             DoublePrec))

\* C20, amended: TransmissionEnergyCost.calculate_cost returns
\* distance * energy * q, q the real quotient of data_in by int(speed) (as the
\* nearest double).
C20_RealDivisionByTruncatedSpeed ==
    TransmissionEnergyCostCase
        => /\ ret.out.k = "ok"
           /\ LET q == FDiv(IntToFloat(ret.args[1]), IntToFloat(PyInt(ret.args[2])),
                            DoublePrec)
              IN /\ NearestQuotient(q, ret.args[1], IntToFloat(PyInt(ret.args[2])))
                 /\ ret.out.v = FMul(FMul(ret.args[3], IntToFloat(ret.args[4]),
                                          DoublePrec),
                                     q, DoublePrec)

\* a cost has been returned for the speed 2.5, which int truncates to 2, and
\* a data size that 2 does not divide
C20_Witness ==
    /\ TransmissionEnergyCostCase
    /\ ret.args[2] = Lit(5, 2)
    /\ ret.args[1] = 1
    /\ ret.out.k = "ok"
    /\ ret.out.v # FZero

\* C21: for data_in >= 0 and speed > 0, TransmissionTimeCost.calculate_cost
\* returns a value, the one TransmissionNode(speed).time_cost(data_in) returns.
C21_TimeCostStrategyMatchesNode ==
    (/\ ret.op = "calculate_cost" /\ ret.class = "TransmissionTimeCost"
     /\ ret.args[1] >= 0
     /\ FLess(FZero, ret.args[2]))
        => /\ ret.out.k = "ok"
           /\ ret.out = time_cost(TransmissionNode(ret.args[2]), ret.args[1])

\* x <= y
FLessEq(x, y) == ~FLess(y, x)

\* the last operation is the process of a stage whose scale factor lies in
\* [0, 1], on a payload >= 0
UnitStage ==
    /\ ret.op = "process"
    /\ ~FIsNeg(node.phi) /\ FLessEq(node.phi, IntToFloat(1))
    /\ ~FIsNeg(ret.data)

\* what the stage returned is an integer d' with 0 <= d' <= d, d its payload
NoGrowth ==
    /\ ret.out.k = "ok"
    /\ ret.out.v.e >= 0
    /\ ~FIsNeg(ret.out.v)
    /\ FLessEq(ret.out.v, ret.data)

\* C22 as stated: every stage of scale factor in [0, 1] returns, for a
\* payload d >= 0, a payload d' with 0 <= d' <= d (so that 0 stays 0).
C22_ChainNeverGrows == UnitStage => NoGrowth

\* C22, amended: the same for payloads below 2^64, which np.float128 holds
\* exactly.
C22_ChainNeverGrowsBelow2To64 ==
    (UnitStage /\ FLessEq(ret.data, AllOnes(LongDoublePrec))) => NoGrowth

\* the second stage of a chain has made the payload 91 smaller
C22_Witness ==
    /\ UnitStage /\ ret.stage = 2
    /\ ret.data = IntToFloat(91)
    /\ FLess(ret.out.v, ret.data) /\ FLess(FZero, ret.out.v)

\* the last operation is the process of a node whose scale factor is 1, on a
\* payload >= 0
UnitFactorStage ==
    /\ ret.op = "process"
    /\ node.phi = IntToFloat(1)
    /\ ~FIsNeg(ret.data)

\* C16 as stated: a node whose scale factor is 1 returns from process the
\* non-negative payload it is given, an integer, whatever its size.
C16_UnitFactorIsIdentity ==
    UnitFactorStage => (ret.out = Ok(ret.data) /\ ret.out.v.e >= 0)

\* C16, amended: the same for payloads below 2^64, which np.float128 holds
\* exactly.
C16_UnitFactorIsIdentityBelow2To64 ==
    (UnitFactorStage /\ FLessEq(ret.data, AllOnes(LongDoublePrec)))
        => (ret.out = Ok(ret.data) /\ ret.out.v.e >= 0)

\* a computing node of scale factor 1 has processed the payload 2^64 - 1
C16_Witness ==
    /\ UnitFactorStage
    /\ node.kind = "computing"
    /\ ret.data = AllOnes(LongDoublePrec)
    /\ ret.out = Ok(AllOnes(LongDoublePrec))

\* a precision that holds every bit of the sums and products below
ExactPrec == 4 * LongDoublePrec

\* d * phi, exactly
ExactProduct(d, phi) == FMul(d, phi, ExactPrec)

\* n is the least integer that is >= x
LeastIntAtLeast(n, x) ==
    /\ n.m = <<>> \/ n.e >= 0
    /\ ~FLess(n, x)
    /\ FLess(FAdd(n, IntToFloat(-1), ExactPrec), x)

\* the two values of 64 significant bits around p > 0, which has more bits
Below64(p) ==
    Canon(FALSE, SubSeq(p.m, 1, LongDoublePrec), p.e + Len(p.m) - LongDoublePrec)

Above64(p) ==
    FAdd(Below64(p), Canon(FALSE, <<1>>, p.e + Len(p.m) - LongDoublePrec), ExactPrec)

\* p >= 0 rounded to 64 significant bits: p itself if it has no more, else
\* the nearer of the two values around it and, halfway between them, the one
\* whose last bit is 0
Extended(p) ==
    IF Len(p.m) <= LongDoublePrec THEN p
    ELSE LET lo == FAdd(p, FNeg(Below64(p)), ExactPrec)
             hi == FAdd(Above64(p), FNeg(p), ExactPrec)
         IN  IF FLess(lo, hi) THEN Below64(p)
             ELSE IF FLess(hi, lo) THEN Above64(p)
             ELSE IF p.m[LongDoublePrec] = 0 THEN Below64(p)
             ELSE Above64(p)

\* the last operation is the process of a payload d >= 0 by a node holding a
\* scale factor phi >= 0
NonNegativeProcess ==
    /\ ret.op = "process"
    /\ ~FIsNeg(ret.data)
    /\ ~FIsNeg(node.phi)

\* C1 as stated: for a payload d >= 0 and a held scale factor phi >= 0,
\* process(d) returns the least integer that is >= d * phi (it rounds up and
\* never truncates); phi is the value the node holds.
C1_ProcessRoundsUp ==
    NonNegativeProcess
        => /\ ret.out.k = "ok"
           /\ LeastIntAtLeast(ret.out.v, ExactProduct(ret.data, node.phi))

\* C1, amended: for a payload d with 0 <= d < 2^64 and a held scale factor
\* phi >= 0, process(d) returns the least integer that is >= r, r being
\* d * phi rounded to the nearest value of 64 significant bits; that is the
\* least integer >= d * phi whenever d * phi has at most 64 significant
\* bits, as it has for every d < 2^11 and phi a double.
C1_ProcessRoundsUpExtended ==
    (NonNegativeProcess /\ FLessEq(ret.data, AllOnes(LongDoublePrec)))
        => /\ ret.out.k = "ok"
           /\ LeastIntAtLeast(ret.out.v, Extended(ExactProduct(ret.data, node.phi)))
           /\ Len(ExactProduct(ret.data, node.phi).m) <= LongDoublePrec
                  => LeastIntAtLeast(ret.out.v, ExactProduct(ret.data, node.phi))
           /\ (FLess(ret.data, IntToFloat(2048)) /\ Len(node.phi.m) <= DoublePrec)
                  => Len(ExactProduct(ret.data, node.phi).m) <= LongDoublePrec

\* process(274177) on a node holding 67280421310721 / 2^64 has returned 1:
\* the product 1 + 2^-64 is rounded to 1 before the ceiling is taken
C1_Witness ==
    /\ NonNegativeProcess
    /\ ret.data = IntToFloat(274177)
    /\ node.phi = CofactorPhi
    /\ ret.out = Ok(IntToFloat(1))

\* the directory the manager holds: the path of project_root
CapturedDir == manager.project_root.parts

\* get_export_dir returns the Path of the directory the manager holds, which
\* no step changes and which at construction is the working directory
ReturnsCapturedDir ==
    /\ manager' = manager
    /\ ret'.op = "get_export_dir"
           => (ret'.out = Ok(Path(Str(TRUE, CapturedDir))) /\ host' = host)

\* create_export_dir with an argument that is not empty changes nothing
RootGivenNoEffect ==
    (ret'.op = "create_export_dir" /\ ret'.root \notin {None, Str(FALSE, <<>>)})
        => host' = host

\* C23 as stated: get_export_dir returns the working directory captured at
\* construction; create_export_dir with a non-empty root creates no
\* directory and changes no state, and without one it creates only the
\* captured directory.
C23_ExportDirIsCaptured ==
    /\ manager.project_root = Str(TRUE, host.cwd)
    /\ [][/\ ReturnsCapturedDir
          /\ RootGivenNoEffect
          /\ (ret'.op = "create_export_dir" /\ ret'.root \in {None, Str(FALSE, <<>>)})
                 => /\ host'.cwd = host.cwd
                    /\ host'.dirs \ host.dirs \subseteq {CapturedDir}]_vars

\* C23, amended: without a root, create_export_dir creates the captured
\* directory and those of its ancestors that are missing, and nothing else.
C23_ExportDirAndAncestors ==
    /\ manager.project_root = Str(TRUE, host.cwd)
    /\ [][/\ ReturnsCapturedDir
          /\ RootGivenNoEffect
          /\ (ret'.op = "create_export_dir" /\ ret'.root \in {None, Str(FALSE, <<>>)})
                 => /\ host'.cwd = host.cwd
                    /\ host.dirs \subseteq host'.dirs
                    /\ host'.dirs \ host.dirs \subseteq Ancestry(CapturedDir)
                    /\ Ancestry(CapturedDir) \subseteq host'.dirs]_vars

\* create_export_dir() has created the captured directory again, the working
\* directory being another one by now
C23_Witness ==
    /\ ret.op = "create_export_dir" /\ ret.root = None
    /\ CapturedDir = <<"srv", "job">>
    /\ host.cwd # CapturedDir
    /\ CapturedDir \in host.dirs
    /\ <<"tmp">> \notin host.dirs

\* the smaller of two integers
Min(a, b) == IF a < b THEN a ELSE b

\* C24: the two trails have the same length, min(500, time); time is 1 once
\* the simulation is constructed, every animate tick adds 1 to it, a reset
\* (by the button or by a radio button) makes it 0 with both trails empty
\* and no other step changes it: time is the number of ticks since the
\* fields were last set to their start.
C24_TrailLengthIsMinOfTicks ==
    /\ sim.time = 1
    /\ [](/\ Len(sim.trail_lon) = Len(sim.trail_lat)
          /\ Len(sim.trail_lon) = Min(TrailMax, sim.time))
    /\ [][/\ ret'.op = "animate" => sim'.time = sim.time + 1
          /\ ret'.op \in {"reset_simulation", "select_orbit"}
                 => (sim'.time = 0 /\ sim'.trail_lon = <<>> /\ sim'.trail_lat = <<>>)
          /\ ret'.op \notin {"animate", "reset_simulation", "select_orbit"}
                 => (sim'.time = sim.time /\ sim'.trail_lon = sim.trail_lon
                     /\ sim'.trail_lat = sim.trail_lat)]_vars

\* the 501st tick since a reset has left 500 points in each trail
C24_Witness ==
    /\ ret.op = "animate"
    /\ sim.time = TrailMax + 1
    /\ Len(sim.trail_lon) = TrailMax
    /\ Len(sim.trail_lat) = TrailMax
    /\ sim.orbit_type = "equatorial"

\* the numbers the entry texts of the model write; the other texts write no
\* number
Meaning ==
    (<<57, 48, 10>> :> IntToFloat(90))
    @@ (<<160, 9, 45, 57, 48, 46, 53>> :> Lit(-905, 10))
    @@ (<<45, 49, 46, 56, 101, 50>> :> IntToFloat(-180))
    @@ (<<1633, 1640, 1632, 46, 1637>> :> Lit(1805, 10))

\* lo <= x <= hi for a number x
Within(lo, x, hi) == ~FLess(x, IntToFloat(lo)) /\ ~FLess(IntToFloat(hi), x)

\* the two entries hold numbers, a latitude in -90..90 and a longitude in
\* -180..180
ValidEntries ==
    /\ planisphere.lat_entry \in DOMAIN Meaning
    /\ planisphere.lon_entry \in DOMAIN Meaning
    /\ Within(-90, Meaning[planisphere.lat_entry], 90)
    /\ Within(-180, Meaning[planisphere.lon_entry], 180)

\* C25: every stored marker (lat, lon) has -90 <= lat <= 90 and
\* -180 <= lon <= 180; mark_location appends the pair of the entries when
\* both are numbers in range and otherwise leaves the markers as they are,
\* and nothing else changes them.  It fails where the map image is there and
\* PhotoImage raises: the valid pair is not stored.
C25_MarkersStayInRange ==
    /\ [](\A i \in 1..Len(planisphere.markers) :
              /\ DOMAIN planisphere.markers[i][1] = {"neg", "m", "e"}
              /\ DOMAIN planisphere.markers[i][2] = {"neg", "m", "e"}
              /\ Within(-90, planisphere.markers[i][1], 90)
              /\ Within(-180, planisphere.markers[i][2], 180))
    /\ [][IF ret'.op = "mark_location" /\ ValidEntries
          THEN planisphere'.markers =
                   Append(planisphere.markers,
                          <<Meaning[planisphere.lat_entry], Meaning[planisphere.lon_entry]>>)
          ELSE planisphere'.markers = planisphere.markers]_vars

====
